---- MODULE Spec2Model ----
(***************************************************************************)
(* SpendSomeTime gamification engine (src/gamification.js): the GameSystem *)
(* object, the record it keeps in localStorage under 'gamificationData',   *)
(* and the events it dispatches on window.                                 *)
(*                                                                         *)
(* Time is Date.now() in milliseconds, counted from an arbitrary origin.   *)
(* A call of an engine method is synchronous and reads the clock once.     *)
(* JSON.stringify / JSON.parse of the record is a deep copy: the parsed    *)
(* object shares nothing with the object that was saved.  An object that   *)
(* is shared (GameSystem.defaultUserData) is a variable of its own.        *)
(***************************************************************************)
EXTENDS Integers, Sequences, FiniteSets, TLC

\* ------------------------------------------------------------------ bounds
\* Days of wall-clock time explored after the page is first opened.
MaxDays == 3
\* Short clock steps explored after the page is first opened.
MaxSubTicks == 2
\* Accepted awards explored (length of xpHistory).
MaxHistory == 3

\* --------------------------------------------------------- program constants
XpDebounceMs == 500
DayMs == 86400000
HourMs == DayMs \div 24
\* null, for lastActivityDate
Null == -1
\* The local calendar: toDateString() is the local date.  In a zone with
\* daylight saving, the day on which clocks go forward lasts 23 hours.
ShortDay == 1
\* The short clock step: half the debounce interval, so that two steps reach
\* it exactly.
SubTickMs == XpDebounceMs \div 2
\* The page is first opened at 23:30 local time of day 0.
StartNow == DayMs - HourMs \div 2
MaxNow == StartNow + MaxDays * DayMs

Amounts == {1000}
Sources == {"unknown"}
ThemeIds == {"default", "zen"}
\* The themes the shop offers for XP.
ShopThemes == {"zen"}
Costs == {50}

\* defaultUserData.milestones
Milestones == <<50, 100, 250, 500, 1000, 2500, 5000>>

\* GameSystem.achievementUnlockTimes is a set of <<id, time>> pairs, one per key.
\* GameSystem.achievements, in Object.values order.  A criterion that an
\* achievement does not have is 0 (falsy, as the missing property is).
achievements ==
  << [id |-> "firstSteps",      xp |-> 10,   streak |-> 0, theme |-> 0],
     [id |-> "earlyBird",       xp |-> 50,   streak |-> 0, theme |-> 0],
     [id |-> "grinder",         xp |-> 250,  streak |-> 0, theme |-> 0],
     [id |-> "legend",          xp |-> 1000, streak |-> 0, theme |-> 0],
     [id |-> "streakStarter",   xp |-> 0,    streak |-> 3, theme |-> 0],
     [id |-> "collectorFirst",  xp |-> 0,    streak |-> 0, theme |-> 1],
     [id |-> "collectorMaster", xp |-> 0,    streak |-> 0, theme |-> 5] >>

\* GameSystem.defaultUserData as the script defines it.
PristineUserData ==
  [ totalXP |-> 0,
    unlockedThemes |-> <<"default">>,
    activeTheme |-> "default",
    xpHistory |-> <<>>,
    currentStreak |-> 0,
    longestStreak |-> 0,
    lastActivityDate |-> Null,
    unlockedAchievements |-> <<>>,
    achievementUnlockTimes |-> {},
    milestones |-> Milestones,
    passedMilestones |-> <<>> ]

VARIABLES
  now,              \* Date.now()
  storage,          \* localStorage['gamificationData']: <<>> or <<record>>
  defaultUserData,  \* GameSystem.defaultUserData (a shared mutable object)
  lastXPAwardTime,  \* GameSystem._lastXPAwardTime
  readyTimers,      \* payloads of init's pending setTimeout(0) callbacks
  effects,          \* storage writes and events of the latest call, in order
  lastOp,           \* the latest call: its arguments and what it returned
  sumCalls,         \* history: sum of the amounts of the awardXP calls
  spacedOnly,       \* history: only awardXP calls, each >= 500 ms after the last accepted
  celebrations,     \* history: milestoneCelebration events per threshold (capped at 2)
  maxStreak,        \* history: largest currentStreak the stored record has had
  themes,           \* ThemeManager.themes: the catalog, a sequence of themes
  currentAppliedTheme, \* ThemeManager._currentAppliedTheme: <<>> (null) or <<id>>
  dom,              \* the root's CSS variables, the body's background and classes
  loadState,        \* the page's loadThemes() call: "none", "fetching", "loaded", "failed"
  clients           \* the URLs of the open windows, in clients.matchAll order

vars == << now, storage, defaultUserData, lastXPAwardTime, readyTimers,
           effects, lastOp, sumCalls, spacedOnly, celebrations, maxStreak,
           themes, currentAppliedTheme, dom, loadState, clients >>

\* The state of ThemeManager and of the document it styles.
tmVars == << themes, currentAppliedTheme, dom, loadState >>

\* ------------------------------------------------------------------ helpers
Includes(seq, x) == \E i \in DOMAIN seq : seq[i] = x

Range(seq) == { seq[i] : i \in DOMAIN seq }

\* new Date(t).toDateString(): the local calendar day of t, as a day number.
\* Days 0..ShortDay-1 last 24 h, day ShortDay lasts 23 h, later days 24 h.
ToDateString(t) ==
  IF t < (ShortDay + 1) * DayMs - HourMs THEN t \div DayMs
  ELSE (t + HourMs) \div DayMs

\* localStorage.getItem + JSON.parse; <<>> stands for null.
getUserData == storage

\* One entry of the effects log.
SetItem(u) ==
  [kind |-> "setItem", name |-> "gamificationData", detail |-> u, stored |-> <<u>>]

Dispatch(name, detail, st) ==
  [kind |-> "dispatch", name |-> name, detail |-> detail, stored |-> st]

\* saveUserData(userData): the write, then the gamificationUpdate event.
saveUserData(u) == << SetItem(u), Dispatch("gamificationUpdate", u, <<u>>) >>

\* this.getUserData() || this.defaultUserData: the object a call works on.
currentUserData == IF getUserData # <<>> THEN getUserData[1] ELSE defaultUserData

\* ------------------------------------------------------------ GameSystem
\* updateStreak without the test that the day was already counted.
updateStreakEveryCall(u, t) ==
  LET lastDate == IF u.lastActivityDate # Null
                  THEN <<ToDateString(u.lastActivityDate)>> ELSE <<>>
      yesterday == ToDateString(t - DayMs)
      cur == IF lastDate = <<yesterday>> THEN u.currentStreak + 1 ELSE 1
  IN [u EXCEPT !.currentStreak = cur,
               !.longestStreak = IF cur > @ THEN cur ELSE @,
               !.lastActivityDate = t]

\* updateStreak without the update of longestStreak.
updateStreakKeepLongest(u, t) ==
  LET today == ToDateString(t)
      lastDate == IF u.lastActivityDate # Null
                  THEN <<ToDateString(u.lastActivityDate)>> ELSE <<>>
      yesterday == ToDateString(t - DayMs)
      cur == IF lastDate = <<yesterday>> THEN u.currentStreak + 1 ELSE 1
  IN IF lastDate # <<today>>
     THEN [u EXCEPT !.currentStreak = cur, !.lastActivityDate = t]
     ELSE u

\* updateStreak(userData), called at time t.
updateStreak(u, t) ==
  LET today == ToDateString(t)
      lastDate == IF u.lastActivityDate # Null
                  THEN <<ToDateString(u.lastActivityDate)>> ELSE <<>>
      yesterday == ToDateString(t - DayMs)
      cur == IF lastDate = <<yesterday>> THEN u.currentStreak + 1 ELSE 1
  IN IF lastDate # <<today>>
     THEN [u EXCEPT !.currentStreak = cur,
                    !.longestStreak = IF cur > @ THEN cur ELSE @,
                    !.lastActivityDate = t]
     ELSE u

\* getStreakMultiplier(userData), in tenths.
getStreakMultiplier(u) ==
  LET streak == u.currentStreak
  IN IF streak >= 7 THEN 15
     ELSE IF streak >= 5 THEN 13
     ELSE IF streak >= 3 THEN 11
     ELSE 10

\* The forEach body without the skip of an achievement already unlocked.
checkOneAchievementUnguarded(acc, a, t) ==
  LET u == acc.u
      unlocked ==
        IF a.xp # 0 /\ u.totalXP >= a.xp THEN TRUE
        ELSE IF a.streak # 0 /\ u.currentStreak >= a.streak THEN TRUE
        ELSE IF a.theme # 0 /\ Len(u.unlockedThemes) >= a.theme + 1 THEN TRUE
        ELSE FALSE
  IN IF unlocked
     THEN [u |-> [u EXCEPT
                    !.unlockedAchievements = Append(@, a.id),
                    !.achievementUnlockTimes =
                      {p \in @ : p[1] # a.id} \cup {<<a.id, t>>}],
           new |-> Append(acc.new, a.id)]
     ELSE acc

\* The forEach body as if the loop stopped at the first achievement unlocked.
checkOneAchievementAtMostOne(acc, a, t) ==
  LET u == acc.u
      unlocked ==
        IF a.xp # 0 /\ u.totalXP >= a.xp THEN TRUE
        ELSE IF a.streak # 0 /\ u.currentStreak >= a.streak THEN TRUE
        ELSE IF a.theme # 0 /\ Len(u.unlockedThemes) >= a.theme + 1 THEN TRUE
        ELSE FALSE
  IN IF Includes(u.unlockedAchievements, a.id) \/ acc.new # <<>> THEN acc
     ELSE IF unlocked
     THEN [u |-> [u EXCEPT
                    !.unlockedAchievements = Append(@, a.id),
                    !.achievementUnlockTimes =
                      {p \in @ : p[1] # a.id} \cup {<<a.id, t>>}],
           new |-> Append(acc.new, a.id)]
     ELSE acc

\* The forEach body without the record of the unlock time.
checkOneAchievementUntimed(acc, a, t) ==
  LET u == acc.u
      unlocked ==
        IF a.xp # 0 /\ u.totalXP >= a.xp THEN TRUE
        ELSE IF a.streak # 0 /\ u.currentStreak >= a.streak THEN TRUE
        ELSE IF a.theme # 0 /\ Len(u.unlockedThemes) >= a.theme + 1 THEN TRUE
        ELSE FALSE
  IN IF Includes(u.unlockedAchievements, a.id) THEN acc
     ELSE IF unlocked
     THEN [u |-> [u EXCEPT !.unlockedAchievements = Append(@, a.id)],
           new |-> Append(acc.new, a.id)]
     ELSE acc

\* The body of checkAchievements' forEach for one achievement a, on the pair
\* acc = [u |-> userData, new |-> newAchievements].
checkOneAchievement(acc, a, t) ==
  LET u == acc.u
      unlocked ==
        IF a.xp # 0 /\ u.totalXP >= a.xp THEN TRUE
        ELSE IF a.streak # 0 /\ u.currentStreak >= a.streak THEN TRUE
        ELSE IF a.theme # 0 /\ Len(u.unlockedThemes) >= a.theme + 1 THEN TRUE
        ELSE FALSE
  IN IF Includes(u.unlockedAchievements, a.id) THEN acc
     ELSE IF unlocked
     THEN [u |-> [u EXCEPT
                    !.unlockedAchievements = Append(@, a.id),
                    !.achievementUnlockTimes =
                      {p \in @ : p[1] # a.id} \cup {<<a.id, t>>}],
           new |-> Append(acc.new, a.id)]
     ELSE acc

RECURSIVE checkAchievementsFrom(_, _, _)
checkAchievementsFrom(acc, i, t) ==
  IF i > Len(achievements) THEN acc
  ELSE checkAchievementsFrom(checkOneAchievement(acc, achievements[i], t), i + 1, t)

\* checkAchievements(userData), called at time t: the record as mutated and
\* the ids of the achievements newly unlocked.
checkAchievements(u, t) == checkAchievementsFrom([u |-> u, new |-> <<>>], 1, t)

\* The body of checkMilestone's forEach for one milestone, on the pair
\* acc = [u |-> userData, evs |-> events dispatched so far]; st is what
\* storage holds while checkMilestone runs.
checkOneMilestone(acc, milestone, st) ==
  LET u == acc.u
  IN IF u.totalXP >= milestone /\ ~Includes(u.passedMilestones, milestone)
     THEN [u |-> [u EXCEPT !.passedMilestones = Append(@, milestone)],
           evs |-> Append(acc.evs,
                     Dispatch("milestoneCelebration",
                              [milestone |-> milestone, totalXP |-> u.totalXP], st))]
     ELSE acc

RECURSIVE checkMilestoneFrom(_, _, _)
checkMilestoneFrom(acc, i, st) ==
  IF i > Len(acc.u.milestones) THEN acc
  ELSE checkMilestoneFrom(checkOneMilestone(acc, acc.u.milestones[i], st), i + 1, st)

\* checkMilestone(userData): the record as mutated and the events dispatched.
checkMilestone(u, st) == checkMilestoneFrom([u |-> u, evs |-> <<>>], 1, st)

\* The debounce test with the interval's end included.
DebouncedInclusive(t) == t - lastXPAwardTime <= XpDebounceMs

\* The debounce test of awardXP at time t.
Debounced(t) == t - lastXPAwardTime < XpDebounceMs

\* _lastXPAwardTime if every attempt moved it.
NextAwardTimeOfAttempt(t) == t

\* _lastXPAwardTime after an awardXP call at time t.
NextAwardTime(t) == IF Debounced(t) THEN lastXPAwardTime ELSE t

\* The XP added without the entry in xpHistory.
AddXPUnrecorded(u, amount, source, t) == [u EXCEPT !.totalXP = @ + amount]

\* awardXP, lines 104-112: the record the call works on, with the XP added
\* and the history entry pushed.
AddXP(u, amount, source, t) ==
  [u EXCEPT !.totalXP = @ + amount,
            !.xpHistory = Append(@, [amount |-> amount, source |-> source,
                                     timestamp |-> t])]

\* awardXP with the milestone check ahead of the write and of xpGained.
awardXPBodyMilestoneFirst(u0, amount, source, t) ==
  LET u1 == [u0 EXCEPT !.totalXP = @ + amount,
                       !.xpHistory = Append(@, [amount |-> amount, source |-> source,
                                                timestamp |-> t])]
      ca == checkAchievements(updateStreak(u1, t), t)
      cm == checkMilestone(ca.u, <<u0>>)
      u3 == cm.u
      xpGained == Dispatch("xpGained",
                    [amount |-> amount, source |-> source, newTotal |-> u3.totalXP,
                     streakMultiplier |-> getStreakMultiplier(u3),
                     newAchievements |-> ca.new], <<u3>>)
  IN [saved |-> u3, ret |-> u3,
      effects |-> cm.evs \o saveUserData(u3) \o <<xpGained>>]

\* awardXP, lines 104-137, for an accepted call on the record u0 at time t:
\* what is written to storage, the record returned, and the effects in order.
awardXPBody(u0, amount, source, t) ==
  LET u1 == AddXP(u0, amount, source, t)
      u2 == updateStreak(u1, t)
      ca == checkAchievements(u2, t)
      u3 == ca.u
      xpGained == Dispatch("xpGained",
                    [amount |-> amount, source |-> source, newTotal |-> u3.totalXP,
                     streakMultiplier |-> getStreakMultiplier(u3),
                     newAchievements |-> ca.new], <<u3>>)
      cm == checkMilestone(u3, <<u3>>)
  IN [saved |-> u3, ret |-> cm.u,
      effects |-> saveUserData(u3) \o <<xpGained>> \o cm.evs]

\* ------------------------------------------------------------- the calls
\* The record of a call, kept in lastOp until the next call or clock step.
\* ret is the object the call returned (<<>> for null, false or nothing).
Op(op, amount, themeId, cost, result, ret) ==
  [op |-> op, amount |-> amount, themeId |-> themeId, cost |-> cost,
   result |-> result, ret |-> ret]

\* No call: the clock has moved since the latest one.
Idle == Op("none", 0, "", 0, "none", <<>>)

\* The milestoneCelebration events among effects e, counted per threshold.
Celebrated(e, m) ==
  Cardinality({ i \in DOMAIN e : e[i].name = "milestoneCelebration"
                                 /\ e[i].detail.milestone = m })

Max(a, b) == IF a >= b THEN a ELSE b
Min(a, b) == IF a <= b THEN a ELSE b

\* The document before any theme was applied: no CSS variable set on the
\* root, no inline background on the body, no theme class on the body.
UnstyledDocument == [style |-> {}, background |-> "", classList |-> {}]

\* ThemeManager as the script defines it (themes: [], _currentAppliedTheme:
\* null), on a page whose load handler has not run yet.
ThemeManagerInit ==
  /\ themes = <<>>
  /\ currentAppliedTheme = <<>>
  /\ dom = UnstyledDocument
  /\ loadState = "none"

Init ==
  /\ now = StartNow
  /\ storage = <<>>
  /\ defaultUserData = PristineUserData
  /\ lastXPAwardTime = 0
  /\ readyTimers = <<>>
  /\ effects = <<>>
  /\ lastOp = Op("load", 0, "", 0, "none", <<>>)
  /\ sumCalls = 0
  /\ spacedOnly = TRUE
  /\ celebrations = [m \in Range(Milestones) |-> 0]
  /\ maxStreak = 0
  /\ ThemeManagerInit
  /\ clients = <<>>

\* Time passes: by a short step during the first instants, or to the
\* same time of day 24 hours later.  A setTimeout(0) callback does not stay
\* pending for a day: it runs before the clock moves that far.
Tick ==
  /\ \/ /\ now - StartNow < MaxSubTicks * SubTickMs
        /\ now' = now + SubTickMs
     \/ /\ readyTimers = <<>>
        /\ StartNow + ((now - StartNow) \div DayMs + 1) * DayMs <= MaxNow
        /\ now' = StartNow + ((now - StartNow) \div DayMs + 1) * DayMs
  /\ effects' = <<>>
  /\ lastOp' = Idle
  /\ UNCHANGED << storage, defaultUserData, lastXPAwardTime, readyTimers,
                  sumCalls, spacedOnly, celebrations, maxStreak >>
  /\ UNCHANGED << tmVars, clients >>

\* The page is loaded (again): the script is evaluated, which creates a new
\* GameSystem object; the timers of the page before are gone.
LoadPage ==
  /\ defaultUserData' = PristineUserData
  /\ lastXPAwardTime' = 0
  /\ readyTimers' = <<>>
  /\ effects' = <<>>
  /\ lastOp' = Op("load", 0, "", 0, "none", <<>>)
  /\ spacedOnly' = FALSE
  /\ sumCalls' = 0
  /\ themes' = <<>>
  /\ currentAppliedTheme' = <<>>
  /\ dom' = UnstyledDocument
  /\ loadState' = "none"
  /\ UNCHANGED clients
  /\ UNCHANGED << now, storage, celebrations, maxStreak >>

\* init(): what it writes, and the object it returns and hands to its timer.
\* init is explored when no callback of an earlier init is still pending.
\* { ...defaultUserData } copies the scalar fields and shares the arrays;
\* nothing mutates either object before the copy is saved.
init(st) ==
  IF st = <<>>
  THEN [userData |-> defaultUserData, effects |-> saveUserData(defaultUserData)]
  ELSE [userData |-> st[1], effects |-> <<>>]

GSInit ==
  /\ readyTimers = <<>>
  /\ LET r == init(getUserData)
     IN /\ storage' = IF storage = <<>> THEN <<r.userData>> ELSE storage
        /\ effects' = r.effects
        /\ readyTimers' = Append(readyTimers, r.userData)
        /\ lastOp' = Op("init", 0, "", 0, "ok", <<r.userData>>)
        /\ maxStreak' = Max(maxStreak, r.userData.currentStreak)
  /\ UNCHANGED << now, defaultUserData, lastXPAwardTime, sumCalls, spacedOnly,
                  celebrations >>
  /\ UNCHANGED << tmVars, clients >>

\* The callback init passed to setTimeout(..., 0) runs.
FireReady ==
  /\ readyTimers # <<>>
  /\ effects' = << Dispatch("gamificationReady", Head(readyTimers), storage),
                   Dispatch("gamificationUpdate", Head(readyTimers), storage) >>
  /\ readyTimers' = Tail(readyTimers)
  /\ lastOp' = Op("readyTimer", 0, "", 0, "none", <<>>)
  /\ UNCHANGED << now, storage, defaultUserData, lastXPAwardTime, sumCalls,
                  spacedOnly, celebrations, maxStreak >>
  /\ UNCHANGED << tmVars, clients >>

\* A call of awardXP(amount, source) at the time now, made directly or by the
\* challengeProgress listener; call is the record of the call kept in lastOp.
AwardXPCall(amount, source, call) ==
  LET u0 == currentUserData
      r == awardXPBody(u0, amount, source, now)
      spaced == u0.xpHistory = <<>>
                \/ now - u0.xpHistory[Len(u0.xpHistory)].timestamp >= XpDebounceMs
  IN /\ lastXPAwardTime' = NextAwardTime(now)
     /\ spacedOnly' = (spacedOnly /\ spaced)
     /\ sumCalls' = IF spacedOnly /\ spaced THEN sumCalls + amount ELSE 0
     /\ IF Debounced(now)
        THEN /\ lastOp' = [call EXCEPT !.result = "null", !.ret = <<>>]
             /\ effects' = <<>>
             /\ UNCHANGED << storage, defaultUserData, celebrations, maxStreak >>
        ELSE /\ storage' = <<r.saved>>
             /\ defaultUserData' = IF getUserData = <<>> THEN r.ret ELSE defaultUserData
             /\ effects' = r.effects
             /\ lastOp' = [call EXCEPT !.result = "ok", !.ret = <<r.ret>>]
             /\ celebrations' = [m \in DOMAIN celebrations |->
                                   Min(2, celebrations[m] + Celebrated(r.effects, m))]
             /\ maxStreak' = Max(maxStreak, r.saved.currentStreak)
     /\ UNCHANGED << now, readyTimers >>
     /\ UNCHANGED << tmVars, clients >>

\* awardXP(amount, source)
AwardXP(amount, source) ==
  /\ Len(currentUserData.xpHistory) < MaxHistory
  /\ AwardXPCall(amount, source, Op("awardXP", amount, "", 0, "none", <<>>))

\* The validations with the test for a theme already unlocked left out.
unlockThemeRejectedForXPOnly(u0, themeId, cost) == u0.totalXP < cost

\* unlockTheme(themeId, cost), lines 256-264: the two validations.
unlockThemeRejected(u0, themeId, cost) ==
  Includes(u0.unlockedThemes, themeId) \/ u0.totalXP < cost

\* unlockTheme that also makes the theme the active one.
unlockThemeBodyActivating(u0, themeId, cost, t) ==
  LET u1 == [u0 EXCEPT !.totalXP = @ - cost,
                       !.unlockedThemes = Append(@, themeId),
                       !.activeTheme = themeId]
      ca == checkAchievements(u1, t)
      u2 == ca.u
  IN [saved |-> u2, ret |-> u2,
      effects |-> saveUserData(u2) \o
                  << Dispatch("themeUnlocked",
                       [themeId |-> themeId, remainingXP |-> u2.totalXP,
                        newAchievements |-> ca.new], <<u2>>) >>]

\* unlockTheme(themeId, cost), lines 266-281, for a call that passed both
\* validations on the record u0 at time t.
unlockThemeBody(u0, themeId, cost, t) ==
  LET u1 == [u0 EXCEPT !.totalXP = @ - cost,
                       !.unlockedThemes = Append(@, themeId)]
      ca == checkAchievements(u1, t)
      u2 == ca.u
  IN [saved |-> u2, ret |-> u2,
      effects |-> saveUserData(u2) \o
                  << Dispatch("themeUnlocked",
                       [themeId |-> themeId, remainingXP |-> u2.totalXP,
                        newAchievements |-> ca.new], <<u2>>) >>]

\* unlockTheme(themeId, cost)
UnlockTheme(themeId, cost) ==
  LET u0 == currentUserData
      r == unlockThemeBody(u0, themeId, cost, now)
  IN /\ IF unlockThemeRejected(u0, themeId, cost)
        THEN /\ lastOp' = Op("unlockTheme", 0, themeId, cost, "null", <<>>)
             /\ effects' = <<>>
             /\ UNCHANGED << storage, defaultUserData >>
        ELSE /\ storage' = <<r.saved>>
             /\ defaultUserData' = IF getUserData = <<>> THEN r.ret ELSE defaultUserData
             /\ effects' = r.effects
             /\ lastOp' = Op("unlockTheme", 0, themeId, cost, "ok", <<r.ret>>)
     /\ spacedOnly' = FALSE
     /\ sumCalls' = 0
     /\ UNCHANGED << now, lastXPAwardTime, readyTimers, celebrations, maxStreak >>
     /\ UNCHANGED << tmVars, clients >>

\* isThemeUnlocked that only asks for a stored record.
isThemeUnlockedWhenStored(themeId) == getUserData # <<>>

\* isThemeUnlocked(themeId)
isThemeUnlocked(themeId) ==
  getUserData # <<>> /\ Includes(getUserData[1].unlockedThemes, themeId)

\* getUnlockedThemes()
getUnlockedThemes ==
  IF getUserData # <<>> THEN getUserData[1].unlockedThemes ELSE <<"default">>

\* getActiveTheme()
getActiveTheme ==
  IF getUserData # <<>> THEN getUserData[1].activeTheme ELSE "default"

\* setActiveTheme(themeId)
SetActiveTheme(themeId) ==
  /\ IF ~isThemeUnlocked(themeId)
     THEN /\ lastOp' = Op("setActiveTheme", 0, themeId, 0, "false", <<>>)
          /\ effects' = <<>>
          /\ UNCHANGED storage
     ELSE LET u == [getUserData[1] EXCEPT !.activeTheme = themeId]
          IN /\ storage' = <<u>>
             /\ effects' = saveUserData(u) \o
                           << Dispatch("themeChanged", [themeId |-> themeId], <<u>>) >>
             /\ lastOp' = Op("setActiveTheme", 0, themeId, 0, "true", <<u>>)
  /\ spacedOnly' = FALSE
  /\ sumCalls' = 0
  /\ UNCHANGED << now, defaultUserData, lastXPAwardTime, readyTimers,
                  celebrations, maxStreak >>
  /\ UNCHANGED << tmVars, clients >>

\* reset(): removeItem, then init() on the emptied storage.
Reset ==
  /\ readyTimers = <<>>
  /\ LET r == init(<<>>)
     IN /\ storage' = <<r.userData>>
        /\ effects' = << [kind |-> "removeItem", name |-> "gamificationData",
                          detail |-> <<>>, stored |-> <<>>] >> \o r.effects
        /\ readyTimers' = Append(readyTimers, r.userData)
        /\ lastOp' = Op("reset", 0, "", 0, "none", <<r.userData>>)
        /\ maxStreak' = r.userData.currentStreak
  /\ celebrations' = [m \in DOMAIN celebrations |-> 0]
  /\ spacedOnly' = FALSE
  /\ sumCalls' = 0
  /\ UNCHANGED << now, defaultUserData, lastXPAwardTime >>
  /\ UNCHANGED << tmVars, clients >>

Next ==
  \/ Tick
  \/ LoadPage
  \/ GSInit
  \/ FireReady
  \/ \E amount \in Amounts, source \in Sources : AwardXP(amount, source)
  \/ \E themeId \in ShopThemes, cost \in Costs : UnlockTheme(themeId, cost)
  \/ \E themeId \in ThemeIds : SetActiveTheme(themeId)
  \/ Reset

Spec == Init /\ [][Next]_vars

\* ------------------------------------------------------------------ claims
\* The record in storage.
Stored == storage[1]

\* The latest call was an accepted awardXP.
AwardAccepted == lastOp.op = "awardXP" /\ lastOp.result = "ok"

\* The thresholds of the milestoneCelebration events among effects e, in the
\* order of their dispatch.
MilestonesCelebrated(e) ==
  LET evs == SelectSeq(e, LAMBDA x : x.name = "milestoneCelebration")
  IN [i \in DOMAIN evs |-> evs[i].detail.milestone]

\* The thresholds that are at most T, ascending.
ThresholdsUpTo(T) == SelectSeq(Milestones, LAMBDA m : m <= T)

\* C1: from a fresh record, as long as only awardXP is called and each call
\* comes at least 500 ms after the accepted call before it, every call is
\* accepted and the stored totalXP is the sum of the amounts of the calls.
C1_SpacedAwardsAllCredited ==
  spacedOnly =>
    /\ storage = <<>> => sumCalls = 0
    /\ storage # <<>> => Stored.totalXP = sumCalls
    /\ lastOp.op = "awardXP" => lastOp.result = "ok"

\* Three spaced awards, the second exactly 500 ms after the first.
C1_Witness ==
  /\ spacedOnly
  /\ AwardAccepted
  /\ storage # <<>>
  /\ Len(Stored.xpHistory) = 3
  /\ Stored.xpHistory[2].timestamp = Stored.xpHistory[1].timestamp + XpDebounceMs
  /\ Stored.totalXP = sumCalls
  /\ sumCalls > 0

\* C2: an awardXP call is rejected exactly when it comes less than 500 ms
\* after the last accepted award of this GameSystem; a rejected call returns
\* null, leaves storage and the shared default record as they are, publishes
\* nothing and does not move the time of the last accepted award.
C2_DebouncedCallChangesNothing ==
  [][ lastOp'.op = "awardXP" =>
        /\ (lastOp'.result = "null") <=> (now - lastXPAwardTime < XpDebounceMs)
        /\ lastOp'.result = "null" =>
             /\ lastOp'.ret = <<>>
             /\ effects' = <<>>
             /\ UNCHANGED << storage, defaultUserData, lastXPAwardTime >> ]_vars

\* A call 250 ms after an accepted award was rejected.
C2_Witness ==
  /\ lastOp.op = "awardXP"
  /\ lastOp.result = "null"
  /\ storage # <<>>
  /\ Stored.xpHistory # <<>>
  /\ lastXPAwardTime = Stored.xpHistory[Len(Stored.xpHistory)].timestamp
  /\ now > lastXPAwardTime
  /\ now - lastXPAwardTime < XpDebounceMs
  /\ effects = <<>>

\* C3: of two awardXP calls on the same stored record less than 500 ms apart
\* at most one is credited, also across a reload of the page: an accepted
\* award comes at least 500 ms after the latest award in the record it reads.
C3_NoDoubleCreditAcrossReload ==
  [][ (lastOp'.op = "awardXP" /\ lastOp'.result = "ok"
       /\ currentUserData.xpHistory # <<>>) =>
        now - currentUserData.xpHistory[Len(currentUserData.xpHistory)].timestamp
          >= XpDebounceMs ]_vars

\* C4: between two resets, milestoneCelebration is published at most once
\* for each threshold.
C4_MilestoneCelebratedOnce == \A m \in DOMAIN celebrations : celebrations[m] <= 1

\* C5: an accepted award that takes totalXP from 0 to T publishes
\* milestoneCelebration for the thresholds that are at most T, ascending, once
\* each, and the stored record's passedMilestones holds exactly those.
C5_SingleAwardPassesMilestones ==
  (AwardAccepted /\ Stored.totalXP = lastOp.amount) =>
    /\ MilestonesCelebrated(effects) = ThresholdsUpTo(lastOp.amount)
    /\ Range(Stored.passedMilestones) = Range(ThresholdsUpTo(lastOp.amount))


\* The positions in effects e of the entries named n.
Positions(e, n) == { i \in DOMAIN e : e[i].name = n }

\* C6: an accepted awardXP writes the record to storage exactly once, and the
\* record written has the XP added, the streak updated and the achievements
\* evaluated; xpGained is published once, after the write; every
\* milestoneCelebration of the call is published after xpGained.
C6_AwardEffectsOrdered ==
  [][ (lastOp'.op = "awardXP" /\ lastOp'.result = "ok") =>
        LET e == effects'
            written == { i \in DOMAIN e : e[i].kind = "setItem" }
        IN /\ written = {1}
           /\ \E source \in Sources :
                e[1].detail =
                  checkAchievements(
                    updateStreak(AddXP(currentUserData, lastOp'.amount, source, now),
                                 now), now).u
           /\ storage' = << e[1].detail >>
           /\ Cardinality(Positions(e, "xpGained")) = 1
           /\ \A x \in Positions(e, "xpGained") :
                /\ x > 1
                /\ e[x].stored = << e[1].detail >>
                /\ \A c \in Positions(e, "milestoneCelebration") : c > x ]_vars

\* An accepted award that raised the streak to 3, by that unlocked
\* streakStarter, wrote both and then celebrated a milestone.
C6_Witness ==
  /\ AwardAccepted
  /\ effects[1].kind = "setItem"
  /\ effects[1].detail.currentStreak = 3
  /\ effects[1].detail.lastActivityDate = now
  /\ Includes(effects[1].detail.unlockedAchievements, "streakStarter")
  /\ \E x \in Positions(effects, "xpGained") :
       Includes(effects[x].detail.newAchievements, "streakStarter")
  /\ Positions(effects, "milestoneCelebration") # {}

\* C7: when an event of a call is delivered, storage holds the record with
\* every mutation the call makes to it: the record the call ends with.
C7_ListenersSeeCommittedState ==
  lastOp.op \in {"awardXP", "unlockTheme", "setActiveTheme", "init", "reset"} =>
    \A i \in DOMAIN effects :
      effects[i].kind = "dispatch" => effects[i].stored = lastOp.ret

\* The three fields updateStreak writes.
StreakFields(u) == << u.currentStreak, u.longestStreak, u.lastActivityDate >>

\* Times of a later call: the next short step, and 1, 23 and 24 hours from now.
LaterTimes == { now + SubTickMs, now + HourMs, now + DayMs - HourMs, now + DayMs }

\* C8: a second updateStreak on the calendar day of the first leaves
\* currentStreak, longestStreak and lastActivityDate as the first left them
\* (for the stored record and the shared default, the first call now, the
\* second later on the same day); and an accepted award on the day of the
\* record's lastActivityDate leaves the three fields as they are.
C8_UpdateStreakIdempotentInDay ==
  /\ [](\A u \in Range(storage) \cup {defaultUserData} :
          \A t \in LaterTimes :
            ToDateString(t) = ToDateString(now) =>
              StreakFields(updateStreak(updateStreak(u, now), t))
                = StreakFields(updateStreak(u, now)))
  /\ [][ (lastOp'.op = "awardXP" /\ lastOp'.result = "ok"
          /\ currentUserData.lastActivityDate # Null
          /\ ToDateString(currentUserData.lastActivityDate) = ToDateString(now)) =>
            StreakFields(storage'[1]) = StreakFields(currentUserData) ]_vars

\* The second accepted award of a day, 500 ms after the first: the streak is
\* still 1 and lastActivityDate is still the time of the first.
C8_Witness ==
  /\ AwardAccepted
  /\ Len(Stored.xpHistory) >= 2
  /\ Stored.xpHistory[Len(Stored.xpHistory)].timestamp = now
  /\ ToDateString(Stored.xpHistory[Len(Stored.xpHistory) - 1].timestamp)
       = ToDateString(now)
  /\ Stored.lastActivityDate < now
  /\ ToDateString(Stored.lastActivityDate) = ToDateString(now)
  /\ Stored.currentStreak = 1

\* C9: on the first accepted award of a calendar day, currentStreak becomes
\* the previous currentStreak + 1 when lastActivityDate is on the previous
\* calendar day, and 1 when it is absent or more than one day back;
\* lastActivityDate becomes now.
C9_FirstAwardOfDay ==
  [][ (lastOp'.op = "awardXP" /\ lastOp'.result = "ok") =>
        LET u == currentUserData
            last == u.lastActivityDate
            today == ToDateString(now)
        IN /\ (last # Null /\ ToDateString(last) = today - 1) =>
                /\ storage'[1].currentStreak = u.currentStreak + 1
                /\ storage'[1].lastActivityDate = now
           /\ (last = Null \/ ToDateString(last) < today - 1) =>
                /\ storage'[1].currentStreak = 1
                /\ storage'[1].lastActivityDate = now ]_vars

\* C10: the stored longestStreak is at least currentStreak and equals the
\* largest currentStreak the stored record has had since the last reset, and
\* no call but reset lowers it.
C10_LongestStreakIsMaximum ==
  /\ [](storage # <<>> =>
          /\ Stored.longestStreak >= Stored.currentStreak
          /\ Stored.longestStreak = maxStreak)
  /\ [][ (storage # <<>> /\ lastOp'.op # "reset") =>
            storage'[1].longestStreak >= Stored.longestStreak ]_vars

\* A streak of 2 was broken: currentStreak is back to 1, longestStreak is 2.
C10_Witness ==
  /\ storage # <<>>
  /\ Stored.currentStreak = 1
  /\ Stored.longestStreak = 2
  /\ maxStreak = 2

\* A sequence without a repeated element.
NoDuplicates(seq) == \A i, j \in DOMAIN seq : seq[i] = seq[j] => i = j

\* The ids in the newAchievements lists of the events among effects e.
NewAchievements(e) ==
  UNION { Range(e[i].detail.newAchievements) :
            i \in Positions(e, "xpGained") \cup Positions(e, "themeUnlocked") }

\* C11: no achievement id is twice in the stored unlockedAchievements; no call
\* but reset removes one; and the newAchievements of an xpGained or
\* themeUnlocked event holds no achievement that the record read by the call
\* had unlocked already.
C11_AchievementsUnlockOnce ==
  /\ [](storage # <<>> => NoDuplicates(Stored.unlockedAchievements))
  /\ [][ /\ (storage # <<>> /\ lastOp'.op # "reset") =>
              Range(Stored.unlockedAchievements)
                \subseteq Range(storage'[1].unlockedAchievements)
         /\ (lastOp'.op \in {"awardXP", "unlockTheme"} /\ lastOp'.result = "ok") =>
              /\ NewAchievements(effects')
                   \cap Range(currentUserData.unlockedAchievements) = {}
              /\ Range(storage'[1].unlockedAchievements)
                   = Range(currentUserData.unlockedAchievements)
                       \cup NewAchievements(effects') ]_vars

\* A second accepted award on a record whose XP achievements are all unlocked:
\* its xpGained names no achievement.
C11_Witness ==
  /\ AwardAccepted
  /\ Len(Stored.xpHistory) = 2
  /\ Len(Stored.unlockedAchievements) = 4
  /\ \E x \in Positions(effects, "xpGained") : effects[x].detail.newAchievements = <<>>

\* C12: unlockTheme is rejected exactly when the theme is already unlocked
\* or totalXP is below the cost; a rejected call returns null, leaves storage
\* and the shared default record as they are and publishes nothing.
C12_UnlockThemeRejection ==
  [][ lastOp'.op = "unlockTheme" =>
        LET u == currentUserData
        IN /\ (lastOp'.result = "null") <=>
                (Includes(u.unlockedThemes, lastOp'.themeId)
                   \/ u.totalXP < lastOp'.cost)
           /\ lastOp'.result = "null" =>
                /\ lastOp'.ret = <<>>
                /\ effects' = <<>>
                /\ UNCHANGED << storage, defaultUserData >> ]_vars

\* unlockTheme of a theme that is unlocked already, with XP enough to pay
\* for it again, was rejected.
C12_Witness ==
  /\ lastOp.op = "unlockTheme"
  /\ lastOp.result = "null"
  /\ storage # <<>>
  /\ Includes(Stored.unlockedThemes, lastOp.themeId)
  /\ Stored.totalXP >= lastOp.cost
  /\ effects = <<>>

\* C13: a successful unlockTheme lowers totalXP by the cost, appends the
\* theme to unlockedThemes, writes the record once and then publishes
\* themeUnlocked with the remaining XP; activeTheme, xpHistory, the streak
\* fields and passedMilestones stay as they were.
C13_UnlockThemeEffect ==
  [][ (lastOp'.op = "unlockTheme" /\ lastOp'.result = "ok") =>
        LET u == currentUserData
            v == storage'[1]
            e == effects'
        IN /\ v.totalXP = u.totalXP - lastOp'.cost
           /\ v.unlockedThemes = Append(u.unlockedThemes, lastOp'.themeId)
           /\ { i \in DOMAIN e : e[i].kind = "setItem" } = {1}
           /\ e[1].detail = v
           /\ lastOp'.ret = << v >>
           /\ Cardinality(Positions(e, "themeUnlocked")) = 1
           /\ \A x \in Positions(e, "themeUnlocked") :
                /\ x > 1
                /\ e[x].detail.themeId = lastOp'.themeId
                /\ e[x].detail.remainingXP = v.totalXP
           /\ v.activeTheme = u.activeTheme
           /\ v.xpHistory = u.xpHistory
           /\ StreakFields(v) = StreakFields(u)
           /\ v.passedMilestones = u.passedMilestones ]_vars

\* zen was unlocked for 50 XP out of 1000; the active theme is still default.
C13_Witness ==
  /\ lastOp.op = "unlockTheme"
  /\ lastOp.result = "ok"
  /\ Stored.unlockedThemes = <<"default", "zen">>
  /\ Stored.totalXP = 950
  /\ Stored.activeTheme = "default"
  /\ Positions(effects, "themeUnlocked") # {}

\* C14: setActiveTheme(themeId) succeeds exactly when themeId is among the
\* themes getUnlockedThemes reports; on success the stored activeTheme is
\* themeId, the record is written and themeChanged is published; otherwise it
\* returns false, storage stays as it is and nothing is published.
C14_SetActiveThemeIffUnlocked ==
  [][ lastOp'.op = "setActiveTheme" =>
        /\ (lastOp'.result = "true") <=> Includes(getUnlockedThemes, lastOp'.themeId)
        /\ lastOp'.result = "true" =>
             /\ storage' # <<>>
             /\ storage'[1].activeTheme = lastOp'.themeId
             /\ effects'[1].kind = "setItem"
             /\ Positions(effects', "themeChanged") # {}
        /\ lastOp'.result = "false" =>
             /\ effects' = <<>>
             /\ UNCHANGED storage ]_vars

\* s is an initial part of t.
IsPrefix(s, t) == Len(s) <= Len(t) /\ \A i \in DOMAIN s : s[i] = t[i]

\* C15: the stored unlockedThemes holds 'default' and no id twice, the stored
\* activeTheme is one of unlockedThemes, and no call but reset takes a theme
\* out of unlockedThemes or reorders it.
C15_ThemeInvariants ==
  /\ [](storage # <<>> =>
          /\ Includes(Stored.unlockedThemes, "default")
          /\ NoDuplicates(Stored.unlockedThemes)
          /\ Includes(Stored.unlockedThemes, Stored.activeTheme))
  /\ [][ (storage # <<>> /\ lastOp'.op # "reset") =>
            IsPrefix(Stored.unlockedThemes, storage'[1].unlockedThemes) ]_vars

\* zen was unlocked and then made the active theme.
C15_Witness ==
  /\ lastOp.op = "setActiveTheme"
  /\ lastOp.result = "true"
  /\ Stored.unlockedThemes = <<"default", "zen">>
  /\ Stored.activeTheme = "zen"

\* C17: after reset() the stored record is the pristine default record.
C17_ResetRestoresDefaults == lastOp.op = "reset" => storage = << PristineUserData >>

\* ------------------------------------------------- calls with any integer
\* awardXP and unlockTheme take any number: amounts and costs of either sign.
SignedAmounts == Amounts \cup { -a : a \in Amounts }
SignedCosts == Costs \cup { -c : c \in Costs }

NextSigned ==
  \/ Tick
  \/ GSInit
  \/ FireReady
  \/ \E amount \in SignedAmounts, source \in Sources : AwardXP(amount, source)
  \/ \E themeId \in ShopThemes, cost \in SignedCosts : UnlockTheme(themeId, cost)

SpecSigned == Init /\ [][NextSigned]_vars

\* C16: the stored totalXP is never below 0, whatever the sign of the amounts
\* awarded and of the costs paid.
C16_TotalXPNonNegative == storage # <<>> => Stored.totalXP >= 0

\* ------------------------------------------------------------ the levels
\* The largest XP for which a level is asked; the inputs are the multiples
\* of 50 and their neighbours, from -MaxLevelXp to MaxLevelXp.
MaxLevelXp == 5100
LevelInputs == { x \in (0 - MaxLevelXp)..MaxLevelXp : x % 50 \in {0, 1, 49} }

\* GameSystem.levels
levels ==
  << [xp |-> 0,    name |-> "Beginner"],
     [xp |-> 100,  name |-> "Learner"],
     [xp |-> 250,  name |-> "Scholar"],
     [xp |-> 500,  name |-> "Master"],
     [xp |-> 1000, name |-> "Sage"],
     [xp |-> 2500, name |-> "Legend"],
     [xp |-> 5000, name |-> "Mythical"] >>

\* { index: i, ...this.levels[i] }, i counted from 0.
Level(i) == [index |-> i, xp |-> levels[i + 1].xp, name |-> levels[i + 1].name]

\* getTotalXP()
getTotalXP == IF getUserData # <<>> THEN getUserData[1].totalXP ELSE 0

\* The loop of getCurrentLevel, from index i down to 0.
RECURSIVE getCurrentLevelFrom(_, _)
getCurrentLevelFrom(totalXP, i) ==
  IF i < 0 THEN Level(0)
  ELSE IF totalXP >= levels[i + 1].xp THEN Level(i)
  ELSE getCurrentLevelFrom(totalXP, i - 1)

\* getCurrentLevel with its loop started one level below the top.
getCurrentLevelBelowTop(xp) ==
  getCurrentLevelFrom(IF xp # <<>> THEN xp[1] ELSE getTotalXP, Len(levels) - 2)

\* getCurrentLevel(xp = null): xp is <<>> for null, <<n>> for the number n.
getCurrentLevel(xp) ==
  getCurrentLevelFrom(IF xp # <<>> THEN xp[1] ELSE getTotalXP, Len(levels) - 1)

\* A call getCurrentLevel(xp).
GetCurrentLevel(xp) ==
  /\ lastOp' = Op("getCurrentLevel", xp, "", 0, "ok", << getCurrentLevel(<<xp>>) >>)
  /\ effects' = <<>>
  /\ UNCHANGED << now, storage, defaultUserData, lastXPAwardTime, readyTimers,
                  sumCalls, spacedOnly, celebrations, maxStreak >>
  /\ UNCHANGED << tmVars, clients >>

\* A call getCurrentLevel(), for the stored total.
GetCurrentLevelOfTotal ==
  /\ lastOp' = Op("getCurrentLevel()", getTotalXP, "", 0, "ok",
                  << getCurrentLevel(<<>>) >>)
  /\ effects' = <<>>
  /\ UNCHANGED << now, storage, defaultUserData, lastXPAwardTime, readyTimers,
                  sumCalls, spacedOnly, celebrations, maxStreak >>
  /\ UNCHANGED << tmVars, clients >>

NextLevels ==
  \/ GSInit
  \/ \E amount \in Amounts, source \in Sources : AwardXP(amount, source)
  \/ \E xp \in LevelInputs : GetCurrentLevel(xp)
  \/ GetCurrentLevelOfTotal

SpecLevels == Init /\ [][NextLevels]_vars

\* The thresholds of the levels that are at most xp.
LevelsUpTo(xp) == { levels[i].xp : i \in { j \in DOMAIN levels : levels[j].xp <= xp } }

\* C18: getCurrentLevel(xp) returns a level for every xp: the one with the
\* highest threshold that is at most xp, or Beginner (threshold 0) when no
\* threshold is at most xp; the level of a smaller xp is never higher;
\* 2600 gives Legend and 49 gives Beginner.
C18_CurrentLevelIsHighestReached ==
  (lastOp.op \in {"getCurrentLevel", "getCurrentLevel()"}) =>
    LET xp == lastOp.amount
    IN /\ lastOp.ret # <<>>
       /\ LET lv == lastOp.ret[1]
          IN /\ lv = Level(lv.index)
             /\ lv.index \in 0..(Len(levels) - 1)
             /\ LevelsUpTo(xp) # {} =>
                  /\ lv.xp \in LevelsUpTo(xp)
                  /\ \A t \in LevelsUpTo(xp) : t <= lv.xp
             /\ LevelsUpTo(xp) = {} => (lv.xp = 0 /\ lv.name = "Beginner")
             /\ \A y \in LevelInputs :
                  y <= xp => getCurrentLevel(<<y>>).index <= lv.index
             /\ xp = 2600 => lv.name = "Legend"
             /\ xp = 49 => lv.name = "Beginner"

\* getCurrentLevel(2600) returned Legend, the level of threshold 2500.
C18_Witness ==
  /\ lastOp.op = "getCurrentLevel"
  /\ lastOp.amount = 2600
  /\ lastOp.ret = << [index |-> 5, xp |-> 2500, name |-> "Legend"] >>

\* ------------------------------------------- the challengeProgress listener
\* GameSystem.rewards.completeChallenge
CompleteChallenge == 25
\* The cap on the minutes that count.
CapMinutes == 300
\* The longest streak of the records the listener is run on.
MaxStreakDays == 7
\* detail.timeSpent, in minutes.
TimeSpents == {-5, 0, 2, 3, 8, 60, 299, 300, 305}

\* Math.round(num / den) for num >= 0 and den > 0: halves go up.
MathRound(num, den) == (2 * num + den) \div (2 * den)

\* The listener's XP, Math.min in the place of the final Math.max.
challengeXPAtMostOne(d, userData) ==
  LET cappedMinutes == Min(Max(0, d.timeSpent), CapMinutes)
      xp == MathRound(cappedMinutes, 5)
            + (IF d.progressIncreased THEN 2 ELSE 0)
            + (IF d.completed THEN CompleteChallenge ELSE 0)
      multiplier == IF userData # <<>> THEN getStreakMultiplier(userData[1]) ELSE 10
  IN Min(1, MathRound(xp * multiplier, 10))

\* The XP computed without the cap of 300 minutes.
challengeXPUncapped(d, userData) ==
  LET cappedMinutes == Max(0, d.timeSpent)
      xpFromTime == MathRound(cappedMinutes, 5)
      xp == xpFromTime
            + (IF d.progressIncreased THEN 2 ELSE 0)
            + (IF d.completed THEN CompleteChallenge ELSE 0)
      multiplier == IF userData # <<>> THEN getStreakMultiplier(userData[1]) ELSE 10
  IN Max(1, MathRound(xp * multiplier, 10))

\* Lines 579-596: the XP the listener computes from the event's detail d and
\* GameSystem.getUserData() (the multiplier is in tenths).
challengeXP(d, userData) ==
  LET cappedMinutes == Min(Max(0, d.timeSpent), CapMinutes)
      xpFromTime == MathRound(cappedMinutes, 5)
      xp == xpFromTime
            + (IF d.progressIncreased THEN 2 ELSE 0)
            + (IF d.completed THEN CompleteChallenge ELSE 0)
      multiplier == IF userData # <<>> THEN getStreakMultiplier(userData[1]) ELSE 10
  IN Max(1, MathRound(xp * multiplier, 10))

\* The challengeProgress listener, on an event with the given detail.
ChallengeProgress(timeSpent, progressIncreased, completed) ==
  LET d == [timeSpent |-> timeSpent, progressIncreased |-> progressIncreased,
            completed |-> completed]
      xp == challengeXP(d, getUserData)
  IN AwardXPCall(xp, "challengeProgress",
                 [op |-> "challengeProgress", amount |-> xp, themeId |-> "",
                  cost |-> 0, result |-> "none", ret |-> <<>>, detail |-> d])

\* The stored record after awardXP(a, 'unknown') on each of n days in a row,
\* the first at StartNow.
RECURSIVE DailyAwards(_, _)
DailyAwards(n, a) ==
  IF n = 0 THEN PristineUserData
  ELSE LET before == DailyAwards(n - 1, a)
       IN IF Len(before.xpHistory) = n - 1
          THEN awardXPBody(before, a, "unknown", StartNow + (n - 1) * DayMs).saved
          ELSE before

\* A page opened on the day after n daily awards (n = 0: the first visit).
InitChallenge ==
  \E n \in 0..MaxStreakDays, a \in Amounts :
    /\ now = StartNow + n * DayMs
    /\ storage = IF n = 0 THEN <<>> ELSE << DailyAwards(n, a) >>
    /\ defaultUserData = PristineUserData
    /\ lastXPAwardTime = 0
    /\ readyTimers = <<>>
    /\ effects = <<>>
    /\ lastOp = Op("load", 0, "", 0, "none", <<>>)
    /\ sumCalls = 0
    /\ spacedOnly = FALSE
    /\ celebrations = [m \in Range(Milestones) |->
                         Min(2, Cardinality({ k \in 1..n : k * a >= m }))]
    /\ maxStreak = n
    /\ ThemeManagerInit
    /\ clients = <<>>

NextChallenge ==
  \/ GSInit
  \/ FireReady
  \/ \E timeSpent \in TimeSpents, progressIncreased \in BOOLEAN, completed \in BOOLEAN :
       ChallengeProgress(timeSpent, progressIncreased, completed)

SpecChallenge == InitChallenge /\ [][NextChallenge]_vars

\* The multiplier of the stored record, in tenths: 1.0 when nothing is stored.
StoredMultiplier ==
  IF storage = <<>> THEN 10
  ELSE IF Stored.currentStreak >= 7 THEN 15
  ELSE IF Stored.currentStreak >= 5 THEN 13
  ELSE IF Stored.currentStreak >= 3 THEN 11
  ELSE 10

\* round(min(max(timeSpent, 0), 300) / 5) + (progressIncreased ? 2 : 0)
\* + (completed ? 25 : 0), for the detail d.
ChallengeBase(d) ==
  LET minutes == IF d.timeSpent < 0 THEN 0
                 ELSE IF d.timeSpent > 300 THEN 300 ELSE d.timeSpent
  IN (minutes * 2 + 5) \div 10
       + (IF d.progressIncreased THEN 2 ELSE 0)
       + (IF d.completed THEN 25 ELSE 0)

\* C19 as stated: the amount forwarded to awardXP is
\* min(1, round(minutes / 5 + bonuses) * streakMultiplier).
C19_ForwardedAmountAsStated ==
  [][ lastOp'.op = "challengeProgress" =>
        lastOp'.amount * 10
          = Min(10, ChallengeBase(lastOp'.detail) * StoredMultiplier) ]_vars

\* C19, amended: the amount forwarded to awardXP is
\* max(1, round((round(minutes / 5) + bonuses) * streakMultiplier)), with the
\* multiplier of the record stored before the award; an accepted award adds
\* that amount to the stored totalXP with the source 'challengeProgress'.
C19_ForwardedAmount ==
  [][ lastOp'.op = "challengeProgress" =>
        LET product == ChallengeBase(lastOp'.detail) * StoredMultiplier
            rounded == (product + 5) \div 10
            amount == IF rounded >= 1 THEN rounded ELSE 1
        IN /\ lastOp'.amount = amount
           /\ lastOp'.result = "ok" =>
                /\ storage'[1].totalXP = currentUserData.totalXP + amount
                /\ storage'[1].xpHistory[Len(storage'[1].xpHistory)]
                     = [amount |-> amount, source |-> "challengeProgress",
                        timestamp |-> now] ]_vars

\* After 7 daily awards, a completed challenge with progress and 60 minutes
\* was worth round((12 + 2 + 25) * 1.5) = 59 XP.
C19_Witness ==
  /\ lastOp.op = "challengeProgress"
  /\ lastOp.result = "ok"
  /\ lastOp.detail = [timeSpent |-> 60, progressIncreased |-> TRUE, completed |-> TRUE]
  /\ lastOp.amount = 59
  /\ Stored.currentStreak = 8
  /\ Stored.totalXP = 7059

\* ------------------------------------------------------------ ThemeManager
\* themes.json is not part of the script: the catalog a successful fetch
\* delivers is an input.  A theme has an id, its CSS variables in the order
\* Object.entries lists them, and a background ("" when it has none).
DefaultTheme ==
  [id |-> "default", cssVariables |-> << <<"primary", "blue">> >>, background |-> ""]

ZenTheme ==
  [id |-> "zen", cssVariables |-> << <<"primary", "green">>, <<"accent", "sand">> >>,
   background |-> "zen.png"]

Catalogs == { << DefaultTheme, ZenTheme >>, << ZenTheme >>, << >> }

\* The ids applyTheme is called with: "retro" is in no catalog.
AppliedIds == ThemeIds \cup {"retro"}

\* ThemeManager and the document as one value.
TM == [themes |-> themes, applied |-> currentAppliedTheme, dom |-> dom]

\* setActiveTheme(themeId) on the storage st: what it stores and dispatches.
setActiveTheme(st, themeId) ==
  IF ~(st # <<>> /\ Includes(st[1].unlockedThemes, themeId))
  THEN [ok |-> FALSE, storage |-> st, effects |-> <<>>]
  ELSE LET u == [st[1] EXCEPT !.activeTheme = themeId]
       IN [ok |-> TRUE, storage |-> <<u>>,
           effects |-> saveUserData(u) \o
                       << Dispatch("themeChanged", [themeId |-> themeId], <<u>>) >>]

\* getTheme(themeId): <<>> for null, else the first theme with that id.
getTheme(catalog, themeId) ==
  LET I == { i \in DOMAIN catalog : catalog[i].id = themeId }
  IN IF I = {} THEN <<>>
     ELSE << catalog[CHOOSE i \in I : \A j \in I : i <= j] >>

\* root.style.setProperty for the entries of cssVariables from the i-th on.
RECURSIVE setProperties(_, _, _)
setProperties(style, cssVariables, i) ==
  IF i > Len(cssVariables) THEN style
  ELSE setProperties({ p \in style : p[1] # cssVariables[i][1] }
                       \cup { cssVariables[i] },
                     cssVariables, i + 1)

\* The DOM work of one application, as an entry of the effects log.
DomUpdate(themeId, st) ==
  [kind |-> "dom", name |-> "applyTheme", detail |-> themeId, stored |-> st]

\* applyTheme without the test that the theme is the one already applied.
applyThemeUnguarded(tm, st, themeId) ==
  LET theme == getTheme(tm.themes, themeId)
  IN IF theme = <<>>
     THEN [tm |-> tm, storage |-> st, effects |-> <<>>]
     ELSE LET style1 == setProperties(tm.dom.style, theme[1].cssVariables, 1)
              background1 == IF theme[1].background # "" THEN theme[1].background
                             ELSE tm.dom.background
              removed == IF tm.applied # <<>> THEN tm.dom.classList \ {tm.applied[1]}
                         ELSE tm.dom.classList
              sa == setActiveTheme(st, themeId)
          IN [tm |-> [tm EXCEPT !.dom = [style |-> style1,
                                         background |-> background1,
                                         classList |-> removed \cup {themeId}],
                                !.applied = <<themeId>>],
              storage |-> sa.storage,
              effects |-> << DomUpdate(themeId, st) >> \o sa.effects]

\* applyTheme(themeId) on ThemeManager tm and storage st.  The class
\* "theme-<id>" of the body is written as the id.
applyTheme(tm, st, themeId) ==
  LET theme == getTheme(tm.themes, themeId)
  IN IF theme = <<>> \/ tm.applied = <<themeId>>
     THEN [tm |-> tm, storage |-> st, effects |-> <<>>]
     ELSE LET style1 == setProperties(tm.dom.style, theme[1].cssVariables, 1)
              background1 == IF theme[1].background # "" THEN theme[1].background
                             ELSE tm.dom.background
              removed == IF tm.applied # <<>> THEN tm.dom.classList \ {tm.applied[1]}
                         ELSE tm.dom.classList
              sa == setActiveTheme(st, themeId)
          IN [tm |-> [tm EXCEPT !.dom = [style |-> style1,
                                         background |-> background1,
                                         classList |-> removed \cup {themeId}],
                                !.applied = <<themeId>>],
              storage |-> sa.storage,
              effects |-> << DomUpdate(themeId, st) >> \o sa.effects]

\* applyActiveTheme(): applyTheme(GameSystem.getActiveTheme()).
applyActiveTheme(tm, st) ==
  applyTheme(tm, st, IF st # <<>> THEN st[1].activeTheme ELSE "default")

\* What the page's loadThemes() call does once its fetch or its parse has
\* failed, as a variant that starts the fetch again.
loadThemesCatchRetrying(tm, st) ==
  LET then == applyActiveTheme(tm, st)
  IN [tm |-> then.tm, storage |-> then.storage, loadState |-> "fetching",
      effects |-> << [kind |-> "console.error", name |-> "Failed to load themes:",
                      detail |-> <<>>, stored |-> st] >> \o then.effects]

\* loadThemes() after fetch or response.json() has thrown: the catch block
\* logs and returns [], then the page's .then callback runs applyActiveTheme.
loadThemesCatch(tm, st) ==
  LET then == applyActiveTheme(tm, st)
  IN [tm |-> then.tm, storage |-> then.storage, loadState |-> "failed",
      effects |-> << [kind |-> "console.error", name |-> "Failed to load themes:",
                      detail |-> <<>>, stored |-> st] >> \o then.effects]

\* loadThemes() after response.json() has delivered catalog: the catalog is
\* kept and the active theme applied, then the page's .then callback applies
\* the active theme again.
loadThemesTry(tm, st, catalog) ==
  LET first == applyActiveTheme([tm EXCEPT !.themes = catalog], st)
      then == applyActiveTheme(first.tm, first.storage)
  IN [tm |-> then.tm, storage |-> then.storage, loadState |-> "loaded",
      effects |-> first.effects \o then.effects]

\* The steps of ThemeManager leave the awardXP bookkeeping alone.
ThemeManagerFrame ==
  /\ spacedOnly' = FALSE
  /\ sumCalls' = 0
  /\ UNCHANGED << now, defaultUserData, lastXPAwardTime, celebrations, maxStreak,
                  clients >>

\* The page-load block: GameSystem.init(), then ThemeManager.loadThemes()
\* up to its first await (initializeNavStats only registers listeners).
Startup ==
  /\ loadState = "none"
  /\ readyTimers = <<>>
  /\ LET r == init(getUserData)
     IN /\ storage' = IF storage = <<>> THEN <<r.userData>> ELSE storage
        /\ effects' = r.effects
        /\ readyTimers' = Append(readyTimers, r.userData)
        /\ lastOp' = Op("startup", 0, "", 0, "ok", <<r.userData>>)
        /\ maxStreak' = Max(maxStreak, r.userData.currentStreak)
  /\ loadState' = "fetching"
  /\ UNCHANGED << now, defaultUserData, lastXPAwardTime, sumCalls, spacedOnly,
                  celebrations, themes, currentAppliedTheme, dom, clients >>

\* The fetch and the parse succeed with catalog.
LoadThemesSucceeds(catalog) ==
  /\ loadState = "fetching"
  /\ LET r == loadThemesTry(TM, storage, catalog)
     IN /\ themes' = r.tm.themes
        /\ currentAppliedTheme' = r.tm.applied
        /\ dom' = r.tm.dom
        /\ storage' = r.storage
        /\ effects' = r.effects
        /\ loadState' = r.loadState
        /\ lastOp' = Op("loadThemes", 0, "", 0, "ok", catalog)
  /\ UNCHANGED readyTimers
  /\ ThemeManagerFrame

\* The fetch rejects, or response.json() rejects on a body that is not JSON.
LoadThemesFails(failure) ==
  /\ loadState = "fetching"
  /\ LET r == loadThemesCatch(TM, storage)
     IN /\ themes' = r.tm.themes
        /\ currentAppliedTheme' = r.tm.applied
        /\ dom' = r.tm.dom
        /\ storage' = r.storage
        /\ effects' = r.effects
        /\ loadState' = r.loadState
        /\ lastOp' = Op("loadThemes", 0, "", 0, failure, <<>>)
  /\ UNCHANGED readyTimers
  /\ ThemeManagerFrame

\* A call ThemeManager.applyTheme(themeId).
ApplyTheme(themeId) ==
  /\ LET r == applyTheme(TM, storage, themeId)
     IN /\ themes' = r.tm.themes
        /\ currentAppliedTheme' = r.tm.applied
        /\ dom' = r.tm.dom
        /\ storage' = r.storage
        /\ effects' = r.effects
        /\ lastOp' = Op("applyTheme", 0, themeId, 0, "none", <<>>)
  /\ UNCHANGED << readyTimers, loadState >>
  /\ ThemeManagerFrame

NextThemes ==
  \/ LoadPage
  \/ Startup
  \/ FireReady
  \/ \E catalog \in Catalogs : LoadThemesSucceeds(catalog)
  \/ \E failure \in {"fetchFailed", "parseFailed"} : LoadThemesFails(failure)
  \/ \E themeId \in AppliedIds : ApplyTheme(themeId)
  \/ \E amount \in Amounts, source \in Sources : AwardXP(amount, source)
  \/ \E themeId \in ShopThemes, cost \in Costs : UnlockTheme(themeId, cost)
  \/ \E themeId \in ThemeIds : SetActiveTheme(themeId)

SpecThemes == Init /\ [][NextThemes]_vars

\* C20: when the fetch or the parse of the catalog fails, the catalog is
\* empty afterwards and the fetch is not started again; and applyTheme(id)
\* for an id that is not in the catalog changes nothing: not the document,
\* not the applied-theme marker, not the stored record (so not activeTheme),
\* and it dispatches no event.
C20_FailedLoadAndAbsentTheme ==
  [][ /\ ( lastOp'.op = "loadThemes" /\ lastOp'.result # "ok" )
          => /\ themes' = <<>>
             /\ loadState' = "failed"
             /\ \A i \in DOMAIN effects' : effects'[i].kind = "console.error"
      /\ loadState = "failed" => loadState' # "fetching"
      /\ ( lastOp'.op = "applyTheme" /\ getTheme(themes, lastOp'.themeId) = <<>> )
          => /\ UNCHANGED << dom, currentAppliedTheme, storage, themes >>
             /\ effects' = <<>> ]_vars

\* After a failed load, with the unlocked theme "zen" the active one,
\* applyTheme("zen") was called: the catalog is empty and nothing is applied.
C20_Witness ==
  /\ loadState = "failed"
  /\ themes = <<>>
  /\ lastOp.op = "applyTheme"
  /\ lastOp.themeId = "zen"
  /\ storage # <<>>
  /\ Stored.activeTheme = "zen"
  /\ currentAppliedTheme = <<>>
  /\ dom = UnstyledDocument

\* The entries of the effects log e of the given kind or name.
Count(e, kind, name) ==
  Cardinality({ i \in DOMAIN e : e[i].kind = kind /\ e[i].name = name })

\* C21: applyTheme(t) for the theme t that is currently applied does no DOM
\* work, writes nothing to storage and dispatches no event; so a successful
\* loadThemes with its .then callback, which call applyActiveTheme twice,
\* applies the active theme once: one DOM update and one themeChanged event
\* when the active theme is in the catalog, none otherwise.
C21_ApplyThemeIdempotent ==
  [][ /\ ( lastOp'.op = "applyTheme" /\ currentAppliedTheme = << lastOp'.themeId >> )
          => /\ UNCHANGED << dom, storage, currentAppliedTheme >>
             /\ effects' = <<>>
      /\ ( lastOp'.op = "loadThemes" /\ lastOp'.result = "ok" )
          => LET n == IF getTheme(themes', getActiveTheme) # <<>>
                         /\ currentAppliedTheme # << getActiveTheme >>
                      THEN 1 ELSE 0
             IN /\ Count(effects', "dom", "applyTheme") = n
                /\ Count(effects', "dispatch", "themeChanged") = n
                /\ Count(effects', "setItem", "gamificationData") = n ]_vars

\* The catalog was loaded while "zen" was the active theme: both
\* applyActiveTheme calls ran and the document was styled once.
C21_Witness ==
  /\ lastOp.op = "loadThemes"
  /\ lastOp.result = "ok"
  /\ currentAppliedTheme = << "zen" >>
  /\ Stored.activeTheme = "zen"
  /\ dom.classList = { "zen" }
  /\ Count(effects, "dom", "applyTheme") = 1
  /\ Count(effects, "dispatch", "themeChanged") = 1

\* ------------------------------------------------ "each of the 7 achievements"
\* The themes a user collects, in the order the shop lists them: five, so
\* that the theme count of collectorMaster is reached.
CollectedThemes == << "zen", "ocean", "forest", "sunset", "neon" >>

\* The calls that can unlock an achievement, over several days; a theme is
\* asked for when it is unlocked already or is the next one of the shop.
NextCollector ==
  \/ Tick
  \/ GSInit
  \/ \E amount \in Amounts, source \in Sources : AwardXP(amount, source)
  \/ \E k \in 1..Min(Len(CollectedThemes), Len(currentUserData.unlockedThemes)),
        cost \in Costs : UnlockTheme(CollectedThemes[k], cost)

SpecCollector == Init /\ [][NextCollector]_vars

\* The predicate of achievement a holds on the record u.
Qualifies(a, u) ==
  \/ a.xp # 0 /\ u.totalXP >= a.xp
  \/ a.streak # 0 /\ u.currentStreak >= a.streak
  \/ a.theme # 0 /\ Cardinality(Range(u.unlockedThemes) \ {"default"}) >= a.theme

\* C22: after every accepted awardXP and every successful unlockTheme, each
\* achievement whose predicate holds on the record the call stored is in the
\* stored unlockedAchievements; those the record read by the call had not
\* unlocked are all in the newAchievements of that call's event.
C22_AchievementsComplete ==
  [][ ( lastOp'.op \in {"awardXP", "unlockTheme"} /\ lastOp'.result = "ok" ) =>
        \A i \in DOMAIN achievements :
          Qualifies(achievements[i], storage'[1]) =>
            /\ Includes(storage'[1].unlockedAchievements, achievements[i].id)
            /\ \/ Includes(currentUserData.unlockedAchievements, achievements[i].id)
               \/ achievements[i].id \in NewAchievements(effects') ]_vars

\* All seven achievements are unlocked, the last one by the unlockTheme call
\* that brought the fifth theme.
C22_Witness ==
  /\ lastOp.op = "unlockTheme"
  /\ lastOp.result = "ok"
  /\ Len(Stored.unlockedThemes) = 6
  /\ Stored.currentStreak >= 3
  /\ Range(Stored.unlockedAchievements) = { achievements[i].id : i \in DOMAIN achievements }
  /\ NewAchievements(effects) = { "collectorMaster" }

\* C23: the keys of the stored achievementUnlockTimes are exactly the ids in
\* the stored unlockedAchievements, one entry per key; and no call but reset
\* removes an entry or changes its timestamp.
C23_UnlockTimesMatchAchievements ==
  /\ [](storage # <<>> =>
          /\ { p[1] : p \in Stored.achievementUnlockTimes }
               = Range(Stored.unlockedAchievements)
          /\ \A p, q \in Stored.achievementUnlockTimes : p[1] = q[1] => p = q)
  /\ [][ (storage # <<>> /\ lastOp'.op # "reset") =>
           Stored.achievementUnlockTimes \subseteq storage'[1].achievementUnlockTimes ]_vars

\* An award on the third day in a row unlocked streakStarter: its timestamp
\* is recorded next to the older ones of the XP achievements.
C23_Witness ==
  /\ AwardAccepted
  /\ "streakStarter" \in NewAchievements(effects)
  /\ <<"streakStarter", now>> \in Stored.achievementUnlockTimes
  /\ \E p \in Stored.achievementUnlockTimes : p[1] = "firstSteps" /\ p[2] < now
  /\ Cardinality(Stored.achievementUnlockTimes) = 5

\* -------------------------------------------------- the service worker
\* A URL is the sequence of its parts; String.prototype.includes is the
\* test for a contiguous run of parts.
Origin == "https://sst.example"
IndexPath == << "/", "index.html" >>
PracticePath == << "/", "practice.html" >>

\* The windows a user has open at most before a click.
MaxWindows == 3

\* The pages of the site a window can show.
WindowUrls ==
  { << Origin >> \o IndexPath, << Origin >> \o PracticePath,
    << Origin, "/", "skills" >> \o IndexPath }

\* event.notification.data.url: <<>> when the notification carries none.
NotificationUrls == { <<>>, IndexPath, PracticePath }

\* url.includes(part)
UrlIncludes(url, part) ==
  \E k \in 0..(Len(url) - Len(part)) :
    \A j \in 1..Len(part) : url[k + j] = part[j]

\* One entry of the effects log for a call on a window or a notification.
WindowCall(kind, url) ==
  [kind |-> kind, name |-> "clients", detail |-> url, stored |-> storage]

\* The callback of matchAll(...).then in both listeners: the first client
\* whose URL includes part is focused, else a window is opened at path.
focusOrOpen(clientList, part, path) ==
  LET I == { i \in DOMAIN clientList : UrlIncludes(clientList[i], part) }
  IN IF I # {}
     THEN WindowCall("focus", clientList[CHOOSE i \in I : \A j \in I : i <= j])
     ELSE WindowCall("openWindow", << Origin >> \o path)

\* The notificationclick listener of lines 32-48, for a notification whose
\* data.url is url.
firstListener(clientList, url) ==
  LET targetUrl == IF url # <<>> THEN url ELSE IndexPath
  IN focusOrOpen(clientList, targetUrl, targetUrl)

\* The notificationclick listener of lines 59-75.
secondListener(clientList) == focusOrOpen(clientList, << "index.html" >>, IndexPath)

\* The windows after the window calls of log e.
RECURSIVE WindowsAfter(_, _, _)
WindowsAfter(w, e, i) ==
  IF i > Len(e) THEN w
  ELSE WindowsAfter(IF e[i].kind = "openWindow" THEN Append(w, e[i].detail) ELSE w,
                    e, i + 1)

\* The steps of the service worker and of the user's windows leave the page
\* and its storage alone.
ServiceWorkerFrame ==
  UNCHANGED << now, storage, defaultUserData, lastXPAwardTime, readyTimers,
               sumCalls, spacedOnly, celebrations, maxStreak, tmVars >>

\* The user opens a page of the site in a new window.
UserOpensWindow(url) ==
  /\ Len(clients) < MaxWindows
  /\ clients' = Append(clients, url)
  /\ effects' = <<>>
  /\ lastOp' = Op("window.open", 0, "", 0, "none", <<>>)
  /\ ServiceWorkerFrame

\* The user closes the i-th window.
UserClosesWindow(i) ==
  /\ i \in DOMAIN clients
  /\ clients' = SubSeq(clients, 1, i - 1) \o SubSeq(clients, i + 1, Len(clients))
  /\ effects' = <<>>
  /\ lastOp' = Op("window.close", 0, "", 0, "none", <<>>)
  /\ ServiceWorkerFrame

\* A click on a notification whose data.url is url.  Both listeners are
\* registered, so both run: each closes the notification and calls matchAll
\* before either callback runs, so both callbacks see the same client list.
\* Whether the browser still allows a window call after the first one of the
\* same click is up to the browser (secondAllowed).
NotificationClick(url, secondAllowed) ==
  /\ Len(clients) <= MaxWindows
  /\ LET first == firstListener(clients, url)
         second == secondListener(clients)
         calls == << first >> \o
                  (IF secondAllowed THEN << second >>
                   ELSE << WindowCall("denied", second.detail) >>)
     IN /\ effects' = << WindowCall("notification.close", <<>>),
                         WindowCall("notification.close", <<>>) >> \o calls
        /\ clients' = WindowsAfter(clients, calls, 1)
        /\ lastOp' = [ Op("notificationclick", 0, "", 0, "none", <<>>)
                         EXCEPT !.ret = << [url |-> url, clientList |-> clients] >> ]
  /\ ServiceWorkerFrame

NextServiceWorker ==
  \/ \E url \in WindowUrls : UserOpensWindow(url)
  \/ \E i \in 1..MaxWindows : UserClosesWindow(i)
  \/ \E url \in NotificationUrls, secondAllowed \in BOOLEAN :
       NotificationClick(url, secondAllowed)

SpecServiceWorker == Init /\ [][NextServiceWorker]_vars

\* C24: a click on a notification results in exactly one window call: a
\* focus of a window whose URL includes the target URL when there is one,
\* else an openWindow at the target URL.
C24_ClickOneWindowAction ==
  lastOp.op = "notificationclick" =>
    LET click == lastOp.ret[1]
        targetUrl == IF click.url # <<>> THEN click.url ELSE IndexPath
        matching == { i \in DOMAIN click.clientList :
                        UrlIncludes(click.clientList[i], targetUrl) }
        acts == { i \in DOMAIN effects : effects[i].kind \in {"focus", "openWindow"} }
    IN /\ Cardinality(acts) = 1
       /\ \A i \in acts :
            IF matching # {}
            THEN /\ effects[i].kind = "focus"
                 /\ \E m \in matching : effects[i].detail = click.clientList[m]
            ELSE /\ effects[i].kind = "openWindow"
                 /\ effects[i].detail = << Origin >> \o targetUrl

\* The sum of the amounts of the entries of xpHistory h from the i-th on.
RECURSIVE SumAmounts(_, _)
SumAmounts(h, i) == IF i > Len(h) THEN 0 ELSE h[i].amount + SumAmounts(h, i + 1)

\* What the successful unlockTheme calls have cost: every one of them
\* appended one theme to unlockedThemes and was made at the shop's price.
SpentOnThemes(u) == (Len(u.unlockedThemes) - 1) * (CHOOSE c \in Costs : TRUE)

\* C25: the stored totalXP is the sum of the amounts in xpHistory minus the
\* costs of the successful unlockTheme calls.  An accepted award adds its
\* amount and appends one entry to xpHistory; a successful unlockTheme takes
\* its cost and leaves xpHistory alone; setActiveTheme and the rejected calls
\* change neither; so earlier entries are never changed or removed.
C25_Accounting ==
  /\ [](storage # <<>> =>
          Stored.totalXP = SumAmounts(Stored.xpHistory, 1) - SpentOnThemes(Stored))
  /\ [][ lastOp'.op \in {"awardXP", "unlockTheme", "setActiveTheme"} =>
           LET u == currentUserData
           IN IF lastOp'.op = "awardXP" /\ lastOp'.result = "ok"
              THEN /\ storage'[1].totalXP = u.totalXP + lastOp'.amount
                   /\ Len(storage'[1].xpHistory) = Len(u.xpHistory) + 1
                   /\ IsPrefix(u.xpHistory, storage'[1].xpHistory)
                   /\ storage'[1].xpHistory[Len(u.xpHistory) + 1].amount = lastOp'.amount
              ELSE IF lastOp'.op = "unlockTheme" /\ lastOp'.result = "ok"
              THEN /\ storage'[1].totalXP = u.totalXP - lastOp'.cost
                   /\ storage'[1].xpHistory = u.xpHistory
              ELSE storage' # <<>> =>
                     /\ storage'[1].totalXP = u.totalXP
                     /\ storage'[1].xpHistory = u.xpHistory ]_vars

\* Two accepted awards of 1000 and then a theme bought for 50: 1950 left.
C25_Witness ==
  /\ lastOp.op = "unlockTheme"
  /\ lastOp.result = "ok"
  /\ Len(Stored.xpHistory) = 2
  /\ Stored.totalXP = 1950
  /\ SumAmounts(Stored.xpHistory, 1) = 2000

\* ------------------------------------------------ "a broken streak"
\* The days between the last daily award and the visit of the page, at most.
MaxGapDays == 3

\* A page opened gap days after the last of n daily awards.
InitLapsed ==
  \E n \in 1..MaxStreakDays, gap \in 1..MaxGapDays, a \in Amounts :
    /\ now = StartNow + (n - 1 + gap) * DayMs
    /\ storage = << DailyAwards(n, a) >>
    /\ defaultUserData = PristineUserData
    /\ lastXPAwardTime = 0
    /\ readyTimers = <<>>
    /\ effects = <<>>
    /\ lastOp = Op("load", 0, "", 0, "none", <<>>)
    /\ sumCalls = 0
    /\ spacedOnly = FALSE
    /\ celebrations = [m \in Range(Milestones) |->
                         Min(2, Cardinality({ k \in 1..n : k * a >= m }))]
    /\ maxStreak = n
    /\ ThemeManagerInit
    /\ clients = <<>>

SpecLapsed == InitLapsed /\ [][NextChallenge]_vars

\* C26: a challengeProgress signal that arrives more than one calendar day
\* after lastActivityDate, and whose award sets currentStreak to 1, is
\* awarded with the multiplier 1.0, the one of the streak after the update:
\* the amount passed to awardXP is the base XP (at least 1).
C26_BrokenStreakNoBonus ==
  [][ ( /\ lastOp'.op = "challengeProgress"
        /\ lastOp'.result = "ok"
        /\ storage # <<>>
        /\ Stored.lastActivityDate # Null
        /\ ToDateString(now) - ToDateString(Stored.lastActivityDate) > 1
        /\ storage'[1].currentStreak = 1 )
      => lastOp'.amount * 10
           = Max(10, ChallengeBase(lastOp'.detail) * getStreakMultiplier(storage'[1])) ]_vars

\* C27: the theme applied to the document (the marker _currentAppliedTheme
\* and the theme class of the body) is one of the stored unlockedThemes and
\* is the stored activeTheme.
C27_AppliedThemeIsUnlockedAndActive ==
  currentAppliedTheme # <<>> =>
    /\ dom.classList = { currentAppliedTheme[1] }
    /\ storage # <<>>
    /\ Includes(Stored.unlockedThemes, currentAppliedTheme[1])
    /\ Stored.activeTheme = currentAppliedTheme[1]

\* C28: every gamificationReady and gamificationUpdate event carries, as its
\* detail, the record that storage holds when the event is delivered,
\* whatever calls were made between init and the run of its timer.
C28_ReadyAndUpdateCarryStoredRecord ==
  \A i \in DOMAIN effects :
    ( effects[i].kind = "dispatch"
      /\ effects[i].name \in {"gamificationReady", "gamificationUpdate"} )
    => effects[i].stored = << effects[i].detail >>

\* ------------------------------------------------ "a bogus payload"
\* What an event's detail can hold as timeSpent: nothing, a number, a string
\* that Number() reads as that number, a value Number() turns into NaN, or
\* an infinity.
RawTimeSpents ==
  { [type |-> t, value |-> 0] : t \in {"missing", "NaN", "Infinity", "-Infinity"} }
    \cup { [type |-> "number", value |-> v] : v \in TimeSpents }
    \cup { [type |-> "string", value |-> 60] }

\* What it can hold as progressIncreased or completed.
RawFlags == { "missing", "false", "true", "'yes'" }

\* A number of minutes above every cap, for Infinity.
Infinity == 1000000

\* Number(d.timeSpent) || 0
NumberOrZero(raw) ==
  IF raw.type \in {"missing", "NaN"} THEN 0
  ELSE IF raw.type = "Infinity" THEN Infinity
  ELSE IF raw.type = "-Infinity" THEN 0 - Infinity
  ELSE raw.value

\* !!value
Truthy(raw) == raw \in { "true", "'yes'" }

\* A challengeProgress event whose detail holds the given raw values.
ChallengeProgressEvent(timeSpent, progressIncreased, completed) ==
  ChallengeProgress(NumberOrZero(timeSpent), Truthy(progressIncreased),
                    Truthy(completed))

NextPayload ==
  \/ GSInit
  \/ FireReady
  \/ \E timeSpent \in RawTimeSpents, progressIncreased \in RawFlags,
        completed \in RawFlags :
       ChallengeProgressEvent(timeSpent, progressIncreased, completed)

SpecPayload == InitChallenge /\ [][NextPayload]_vars

\* C29: whatever the payload and the stored streak, the amount the listener
\* passes to awardXP is an integer from 1 to 131; an accepted award raises
\* the stored totalXP by that amount.
C29_AwardedAmountBounded ==
  [][ lastOp'.op = "challengeProgress" =>
        /\ lastOp'.amount \in 1..131
        /\ lastOp'.result = "ok" =>
             storage'[1].totalXP - currentUserData.totalXP \in 1..131 ]_vars

\* The largest award: unbounded minutes on a completed challenge with
\* progress, at a stored streak of 7: round((60 + 2 + 25) * 1.5) = 131.
C29_Witness ==
  /\ lastOp.op = "challengeProgress"
  /\ lastOp.result = "ok"
  /\ lastOp.detail = [timeSpent |-> Infinity, progressIncreased |-> TRUE,
                      completed |-> TRUE]
  /\ lastOp.amount = 131
  /\ Stored.currentStreak = 8

====
